---- MODULE Spec2Model ----
(***************************************************************************)
(* Model of the ITC503 driver of cryocontrol                              *)
(* (cryocontrol/instruments/itc503.py on top of instruments/base.py).      *)
(*                                                                         *)
(* Strings that go over the wire are sequences of one-character strings,   *)
(* so that formatting a number into a command and parsing a response are   *)
(* computed the way the driver computes them.                              *)
(*                                                                         *)
(* Units: time is counted in ticks (TicksPerSec ticks to the second);      *)
(* a temperature passed to a setter is in milli-Kelvin, a temperature      *)
(* after round(value, 2) in centi-Kelvin; a heater / gas flow percentage   *)
(* passed to a setter is in hundredths of a percent, after round(value, 1) *)
(* in tenths of a percent.  Booleans that are recorded as the argument or  *)
(* the result of a call are recorded as 1 / 0, "no value" as -1.           *)
(***************************************************************************)
EXTENDS Integers, Sequences, FiniteSets, TLC

VARIABLES
    connection,      \* base.py: self.connection is not None
    _cached_status,  \* itc503.py: self._cached_status (NoStatus for None)
    _last_status,    \* itc503.py: self._last_status, in ticks
    _ramp_speed,     \* itc503.py: self._ramp_speed, in Kelvin / min
    _ramp_enabled,   \* itc503.py: self._ramp_enabled
    _cancel_ramp,    \* itc503.py: self._cancel_ramp.is_set()
    _ramp_thread,    \* itc503.py: self._ramp_thread (NoThread for None)
    now,             \* time.time(), in ticks since construction
    devAuto,         \* instrument: its auto-mode code, 0..3
    devT,            \* instrument: payload of the last 'T' command it took
    lastFetch,       \* transport: time of the last 'X' round trip that was
                     \* answered with a well-formed status (-1: none yet)
    wire,            \* transport: the calls made on it by the latest step
    lastOp,          \* the latest call of the driver that ended, and how
    pending,         \* per calling thread: its call that has not returned
    task,            \* the ramp thread: where it is in _ramp_to_temperature,
                     \* its local `current` and the branch of its last write
    _lock            \* base.py: the thread that holds self._lock ("free":
                     \* none)

cacheVars == <<_cached_status, _last_status>>
rampVars == <<_ramp_speed, _ramp_enabled, _cancel_ramp, _ramp_thread>>
devVars == <<devAuto, devT, lastFetch>>
threadVars == <<pending, task, _lock>>
vars == <<connection, _cached_status, _last_status, _ramp_speed, _ramp_enabled,
          _cancel_ramp, _ramp_thread, now, devAuto, devT, lastFetch, wire,
          lastOp, pending, task, _lock>>

----------------------------------------------------------------------------
(* Bounds of the model.                                                    *)

TicksPerSec == 2
MaxTime == 5

----------------------------------------------------------------------------
(* Exceptions, by the name of their Python class.                          *)

NoError == "none"
\* raise ConnectionError(...) in query / read / write
ConnectionFailure == "ConnectionError"
\* raise ValueError(...) in the setters
InvalidArgument == "ValueError"
\* raise IOError('Bad response: ...') in _read_channel
ProtocolError == "IOError"
\* raise NotImplementedError(...) in select_heater_module / select_gasflow_module
UnsupportedOperation == "NotImplementedError"

Call(op, arg, err, ret) == [op |-> op, arg |-> arg, err |-> err, ret |-> ret]

Bool(b) == IF b THEN 1 ELSE 0

\* the threads whose calls are followed step by step
Threads == {"t1", "t2"}

\* the thread that calls the setters of the setpoint and of the ramp
Foreground == "t1"

\* a thread that is in no call of the driver
Idle == [op |-> "none", value |-> 0, code |-> 0]

\* no ramp thread is running _ramp_to_temperature
NoTask == [pc |-> "none", current |-> 0, wrote |-> "none"]

----------------------------------------------------------------------------
(* Characters and numbers.                                                 *)

DigitChars == <<"0", "1", "2", "3", "4", "5", "6", "7", "8", "9">>

DigitChar(d) == DigitChars[d + 1]

IsDigit(c) == \E d \in 0..9 : c = DigitChar(d)

DigitValue(c) == CHOOSE d \in 0..9 : c = DigitChar(d)

RECURSIVE Digits(_)
\* str() of a natural number
Digits(n) == IF n < 10 THEN <<DigitChar(n)>>
             ELSE Digits(n \div 10) \o <<DigitChar(n % 10)>>

RECURSIVE DigitsValue(_)
\* the natural number a string of digits denotes
DigitsValue(s) == IF s = <<>> THEN 0
                  ELSE 10 * DigitsValue(SubSeq(s, 1, Len(s) - 1))
                       + DigitValue(s[Len(s)])

----------------------------------------------------------------------------
(* The transport: a record per call made on the connection.                *)

\* one call on the connection: the command sent, whether the transport
\* carried it out, and the response read back (<<>>: none)
Sent(cmd, ok, resp) == [cmd |-> cmd, ok |-> ok, resp |-> resp]

\* connection.query(value) / connection.write(value) raised: the call went out
\* and the transport failed
Failed(cmd) == Sent(cmd, FALSE, <<>>)

\* TempController.query: the outcomes of one query, the instrument answering
\* with one of `responses`.  With no connection, None.query raises
\* AttributeError, which is re-raised as ConnectionError like any failure of
\* the transport.
query(cmd, responses) ==
    IF ~connection
    THEN {[err |-> ConnectionFailure, sent |-> <<>>, resp |-> <<>>]}
    ELSE {[err |-> ConnectionFailure, sent |-> <<Failed(cmd)>>, resp |-> <<>>]}
         \cup {[err |-> NoError, sent |-> <<Sent(cmd, TRUE, r)>>, resp |-> r] :
               r \in responses}

----------------------------------------------------------------------------
(* The status word.                                                        *)

\* the status the instrument reports, its sweep field in one or two digits
StatusString(auto, sweep) ==
    <<"X", "0", "A", DigitChar(auto), "C", "3", "S">> \o sweep
    \o <<"H", "1", "L", "0">>

GoodStatusResponses ==
    {StatusString(devAuto, <<"0", "0">>), StatusString(devAuto, <<"0">>)}

\* responses that are no status: cut short, followed by a remainder, an
\* error marker
BadStatusResponses ==
    {SubSeq(StatusString(devAuto, <<"0", "0">>), 1, 6),
     StatusString(devAuto, <<"0", "0">>) \o <<"?">>,
     <<"?", "X">>}

StatusResponses == GoodStatusResponses \cup BadStatusResponses

\* re.fullmatch(_status_pattern, s) is not None:
\* X\d A\d C\d S\d{1,2} H\d L\d and nothing else
fullmatch(s) ==
    LET n == Len(s) IN
    /\ n \in {12, 13}
    /\ s[1] = "X" /\ IsDigit(s[2])
    /\ s[3] = "A" /\ IsDigit(s[4])
    /\ s[5] = "C" /\ IsDigit(s[6])
    /\ s[7] = "S" /\ \A i \in 8..(n - 4) : IsDigit(s[i])
    /\ s[n - 3] = "H" /\ IsDigit(s[n - 2])
    /\ s[n - 1] = "L" /\ IsDigit(s[n])

\* match.groupdict() of a full match
groupdict(s) ==
    LET n == Len(s) IN
    [system |-> SubSeq(s, 1, 2), auto |-> SubSeq(s, 3, 4),
     lock |-> SubSeq(s, 5, 6), sweep |-> SubSeq(s, 7, n - 4),
     control_sensor |-> SubSeq(s, n - 3, n - 2),
     auto_pid |-> SubSeq(s, n - 1, n)]

\* self._cached_status = None
NoStatus ==
    [system |-> <<>>, auto |-> <<>>, lock |-> <<>>, sweep |-> <<>>,
     control_sensor |-> <<>>, auto_pid |-> <<>>]

\* the cache lives two seconds
StaleLate == now - _last_status > 2 * TicksPerSec \/ _cached_status = NoStatus

\* time.time() - self._last_status > 1 or not self._cached_status
Stale == now - _last_status > TicksPerSec \/ _cached_status = NoStatus

StatusResult(err, status, cache, last, sent, fetch) ==
    [err |-> err, status |-> status, cache |-> cache, last |-> last,
     sent |-> sent, fetch |-> fetch]

\* ITC503._get_status: the outcomes of one call.  match is None for a
\* response that is no full match, and None.groupdict() raises
\* AttributeError before anything is assigned.
_get_status ==
    IF ~Stale
    THEN {StatusResult(NoError, _cached_status, _cached_status, _last_status,
                       <<>>, lastFetch)}
    ELSE {IF q.err # NoError
          THEN StatusResult(q.err, NoStatus, _cached_status, _last_status,
                            q.sent, lastFetch)
          ELSE IF ~fullmatch(q.resp)
          THEN StatusResult("AttributeError", NoStatus, _cached_status,
                            _last_status, q.sent,
                            IF q.resp \in GoodStatusResponses THEN now
                            ELSE lastFetch)
          ELSE StatusResult(NoError, groupdict(q.resp), groupdict(q.resp),
                            now, q.sent,
                            IF q.resp \in GoodStatusResponses THEN now
                            ELSE lastFetch) :
          q \in query(<<"X">>, StatusResponses)}

----------------------------------------------------------------------------
(* Heater and gas flow auto mode.                                          *)

A0 == <<"A", "0">>
A1 == <<"A", "1">>
A2 == <<"A", "2">>
A3 == <<"A", "3">>

\* heater_auto (getter): status['auto'] in ('A1', 'A3')
heater_auto_of(status) == status.auto \in {A1, A3}

\* gasflow_auto (getter): status['auto'] in ('A2', 'A3')
gasflow_auto_of(status) == status.auto \in {A2, A3}

\* heater_auto (setter): the code it sends for `value`, given the status
heater_auto_code(status, value) ==
    IF status.auto \in {A0, A1}
    THEN (IF value THEN 1 ELSE 0)
    ELSE (IF value THEN 3 ELSE 2)

\* gasflow_auto (setter): the code it sends for `value`, given the status
gasflow_auto_code(status, value) ==
    IF status.auto \in {A0, A2}
    THEN (IF value THEN 2 ELSE 0)
    ELSE (IF value THEN 3 ELSE 1)

\* what a call of _get_status leaves behind
StatusEffect(g) ==
    /\ _cached_status' = g.cache
    /\ _last_status' = g.last
    /\ lastFetch' = g.fetch

\* a getter of one of the two flags: the flag of the status, or the
\* exception of _get_status
AutoGet(op, g, flag) ==
    /\ StatusEffect(g)
    /\ wire' = g.sent
    /\ lastOp' = Call(op, -1, g.err, IF g.err = NoError THEN Bool(flag) ELSE -1)
    /\ UNCHANGED <<connection, rampVars, now, threadVars, devAuto, devT>>

\* a setter of one of the two flags: the status, then query('A<code>')
AutoSet(op, g, value, code) ==
    /\ StatusEffect(g)
    /\ IF g.err # NoError
       THEN /\ wire' = g.sent
            /\ lastOp' = Call(op, Bool(value), g.err, -1)
            /\ UNCHANGED devAuto
       ELSE \E q \in query(<<"A", DigitChar(code)>>, {<<"A">>}) :
               /\ wire' = g.sent \o q.sent
               /\ lastOp' = Call(op, Bool(value), q.err, -1)
               /\ devAuto' = IF q.err = NoError THEN code ELSE devAuto
    /\ UNCHANGED <<connection, rampVars, now, threadVars, devT>>

heater_auto_get ==
    \E g \in _get_status :
        AutoGet("get_heater_auto", g, g.err = NoError /\ heater_auto_of(g.status))

heater_auto_set(value) ==
    \E g \in _get_status :
        AutoSet("set_heater_auto", g, value,
                IF g.err = NoError THEN heater_auto_code(g.status, value) ELSE 0)

gasflow_auto_get ==
    \E g \in _get_status :
        AutoGet("get_gasflow_auto", g, g.err = NoError /\ gasflow_auto_of(g.status))

gasflow_auto_set(value) ==
    \E g \in _get_status :
        AutoSet("set_gasflow_auto", g, value,
                IF g.err = NoError THEN gasflow_auto_code(g.status, value) ELSE 0)

\* a setter of one of the two flags on thread t, up to the return of
\* `status = self._get_status()`: the lock is released again, and the code
\* to send is worked out from the status
auto_set_status(t, op, value) ==
    /\ pending[t] = Idle
    /\ \E g \in _get_status :
          /\ StatusEffect(g)
          /\ wire' = g.sent
          /\ IF g.err # NoError
             THEN /\ lastOp' = Call(op, Bool(value), g.err, -1)
                  /\ UNCHANGED pending
             ELSE /\ pending' =
                        [pending EXCEPT ![t] =
                            [op |-> op, value |-> Bool(value),
                             code |-> IF op = "set_heater_auto"
                                      THEN heater_auto_code(g.status, value)
                                      ELSE gasflow_auto_code(g.status, value)]]
                  /\ UNCHANGED lastOp
    /\ UNCHANGED <<connection, rampVars, now, task, _lock, devAuto, devT>>

\* the rest of the setter on thread t: self.query('A<code>'), which takes
\* the lock anew
auto_set_query(t) ==
    /\ pending[t].op \in {"set_heater_auto", "set_gasflow_auto"}
    /\ \E q \in query(<<"A", DigitChar(pending[t].code)>>, {<<"A">>}) :
          /\ wire' = q.sent
          /\ lastOp' = Call(pending[t].op, pending[t].value, q.err, -1)
          /\ devAuto' = IF q.err = NoError THEN pending[t].code ELSE devAuto
    /\ pending' = [pending EXCEPT ![t] = Idle]
    /\ UNCHANGED <<connection, cacheVars, rampVars, now, task, _lock, devT, lastFetch>>

----------------------------------------------------------------------------
(* Connection.                                                             *)

\* whatever connection.close() raises
TransportError == "Exception"

\* TempController.disconnect: close() raising leaves the method before
\* self.connection = None
disconnect ==
    /\ IF connection
       THEN \E ok \in BOOLEAN :
               /\ wire' = <<Sent(<<"close">>, ok, <<>>)>>
               /\ connection' = ~ok
               /\ lastOp' = Call("disconnect", -1,
                                 IF ok THEN NoError ELSE TransportError, -1)
       ELSE /\ wire' = <<>>
            /\ connection' = FALSE
            /\ lastOp' = Call("disconnect", -1, NoError, -1)
    /\ UNCHANGED <<cacheVars, rampVars, now, threadVars, devVars>>

\* connect, were a failed handshake to drop the connection
connect_reset ==
    /\ \E opened \in BOOLEAN :
          IF ~opened
          THEN /\ connection' = FALSE
               /\ wire' = <<Failed(<<"open">>)>>
               /\ lastOp' = Call("connect", -1, NoError, -1)
          ELSE \E q2 \in BOOLEAN, c3 \in BOOLEAN :
                     /\ connection' = (q2 /\ c3)
                     /\ wire' = <<Sent(<<"open">>, TRUE, <<>>)>>
                                \o <<Sent(<<"Q", "2">>, q2, <<>>)>>
                                \o (IF q2
                                    THEN <<Sent(<<"C", "3">>, c3,
                                                IF c3 THEN <<"C">> ELSE <<>>)>>
                                    ELSE <<>>)
                     /\ lastOp' = Call("connect", -1,
                                       IF q2 /\ c3 THEN NoError
                                       ELSE ConnectionFailure, -1)
    /\ UNCHANGED <<cacheVars, rampVars, now, threadVars, devVars>>

\* ITC503.connect: TempController.connect (any exception of open_resource is
\* printed and leaves connection = None), then, if connected, write('Q2')
\* and query('C3')
connect ==
    /\ \E opened \in BOOLEAN :
          IF ~opened
          THEN /\ connection' = FALSE
               /\ wire' = <<Failed(<<"open">>)>>
               /\ lastOp' = Call("connect", -1, NoError, -1)
          ELSE /\ connection' = TRUE
               /\ \E q2 \in BOOLEAN, c3 \in BOOLEAN :
                     /\ wire' = <<Sent(<<"open">>, TRUE, <<>>)>>
                                \o <<Sent(<<"Q", "2">>, q2, <<>>)>>
                                \o (IF q2
                                    THEN <<Sent(<<"C", "3">>, c3,
                                                IF c3 THEN <<"C">> ELSE <<>>)>>
                                    ELSE <<>>)
                     /\ lastOp' = Call("connect", -1,
                                       IF q2 /\ c3 THEN NoError
                                       ELSE ConnectionFailure, -1)
    /\ UNCHANGED <<cacheVars, rampVars, now, threadVars, devVars>>

----------------------------------------------------------------------------
(* Time.                                                                   *)

Tick ==
    /\ now < MaxTime
    /\ now' = now + 1
    /\ UNCHANGED <<connection, cacheVars, rampVars, devVars, wire, lastOp,
                   threadVars>>

----------------------------------------------------------------------------
(* Numbers on the wire.                                                    *)

TempMax == 300
PercentMaxTenths == 999

\* round, were it to round up
round_up(v) == (v + 9) \div 10

\* round(value, 2) of a temperature in milli-Kelvin, round(value, 1) of a
\* percentage in hundredths: to the nearest multiple of ten, a tie to the
\* even neighbour
round(v) ==
    LET q == v \div 10
        r == v % 10
    IN  IF r < 5 THEN q
        ELSE IF r > 5 THEN q + 1
        ELSE IF q % 2 = 0 THEN q ELSE q + 1

\* str() of a float of at most two decimals, given in hundredths: '10.0',
\* '10.3', '10.25'
str2(c) ==
    Digits(c \div 100) \o <<".">>
    \o (IF c % 10 = 0 THEN <<DigitChar((c % 100) \div 10)>>
        ELSE <<DigitChar((c % 100) \div 10), DigitChar(c % 10)>>)

\* str() of a float of at most one decimal, given in tenths: '12.3', '0.0'
str1(t) == Digits(t \div 10) \o <<".">> \o <<DigitChar(t % 10)>>

\* the filter lets the digits through and drops the '.'
numeric_digits(resp) == SelectSeq(resp, IsDigit)

\* ''.join(filter(lambda s: s in '0123456789.', resp))
numeric(resp) == SelectSeq(resp, LAMBDA c : IsDigit(c) \/ c = ".")

\* the position of the first '.' of s, Len(s) + 1 if it has none
DotAt(s) ==
    IF \E i \in 1..Len(s) : s[i] = "."
    THEN CHOOSE i \in 1..Len(s) : s[i] = "." /\ \A j \in 1..(i - 1) : s[j] # "."
    ELSE Len(s) + 1

\* float(s) does not raise ValueError: digits with at most one '.' among
\* them, and at least one digit
is_float(s) ==
    /\ \E i \in 1..Len(s) : IsDigit(s[i])
    /\ \A i \in 1..Len(s) : s[i] = "." => i = DotAt(s)

\* float(s), in hundredths, of a string of at most two decimals
float(s) ==
    LET d == DotAt(s)
        frac == SubSeq(s, d + 1, Len(s))
    IN  100 * DigitsValue(SubSeq(s, 1, d - 1))
        + (IF Len(frac) = 0 THEN 0
           ELSE IF Len(frac) = 1 THEN 10 * DigitValue(frac[1])
           ELSE 10 * DigitValue(frac[1]) + DigitValue(frac[2]))

\* the responses of the instrument to 'R0': its setpoint after the marker,
\* an error marker, a marker with nothing behind it
ChannelResponses == {<<"R">> \o devT, <<"?", "R", "0">>, <<"R">>}

\* what ITC503._read_channel makes of the outcome q of its query: the
\* exception it raises and the value it returns, in hundredths
channel_result(q) ==
    IF q.err # NoError THEN [err |-> q.err, value |-> -1]
    ELSE IF Len(q.resp) > 0 /\ q.resp[1] = "?"
    THEN [err |-> ProtocolError, value |-> -1]
    ELSE IF ~is_float(numeric(q.resp))
    THEN [err |-> "ValueError", value |-> -1]
    ELSE [err |-> NoError, value |-> float(numeric(q.resp))]

\* ITC503._read_channel(0), as the call `op`
_read_channel(op) ==
    /\ \E q \in query(<<"R", "0">>, ChannelResponses) :
          /\ wire' = q.sent
          /\ lastOp' = Call(op, -1, channel_result(q).err,
                            channel_result(q).value)
    /\ UNCHANGED <<connection, cacheVars, rampVars, now, threadVars, devVars>>

----------------------------------------------------------------------------
(* Temperature setpoint and ramp.                                          *)

\* self._ramp_thread = None
NoThread == [state |-> "none", target |-> 0]

\* threading.Thread(target=self._ramp_to_temperature, args=(value,)): a
\* thread that has not been started
Thread(target) == [state |-> "initial", target |-> target]

\* Thread.join(): RuntimeError for a thread that has not been started
join(thread) == IF thread.state = "initial" THEN "RuntimeError" ELSE NoError

\* is_alive, were no thread ever found alive
is_alive_never(thread) == thread.state = "alive"

\* Thread.is_alive()
is_alive(thread) == thread.state = "started"

\* temperature_setpoint (getter)
temperature_setpoint_get == _read_channel("get_temperature_setpoint")

\* a setpoint just above the domain passes the check
temperature_in_domain_wide(value) == 0 <= value /\ value <= (TempMax + 1) * 1000

\* 0 <= value <= 300, value in milli-Kelvin
temperature_in_domain(value) == 0 <= value /\ value <= TempMax * 1000

\* temperature_setpoint (setter), value in milli-Kelvin, where it does not
\* have to wait in join()
temperature_setpoint_set(value) ==
    /\ (temperature_in_domain(value) /\ _ramp_enabled)
          => ~is_alive(_ramp_thread)
    /\ IF ~temperature_in_domain(value)
       THEN /\ lastOp' = Call("set_temperature_setpoint", value, InvalidArgument, -1)
            /\ wire' = <<>>
            /\ UNCHANGED <<rampVars, devT>>
       ELSE IF ~_ramp_enabled
       THEN /\ \E q \in query(<<"T">> \o str2(round(value)), {<<"T">>}) :
                  /\ wire' = q.sent
                  /\ devT' = IF q.err = NoError THEN str2(round(value)) ELSE devT
                  /\ lastOp' = Call("set_temperature_setpoint", value, q.err, -1)
            /\ UNCHANGED rampVars
       ELSE /\ _cancel_ramp' = TRUE
            /\ wire' = <<>>
            /\ IF _ramp_thread # NoThread /\ join(_ramp_thread) # NoError
               THEN /\ lastOp' = Call("set_temperature_setpoint", value,
                                      join(_ramp_thread), -1)
                    /\ UNCHANGED _ramp_thread
               ELSE /\ _ramp_thread' = Thread(round(value))
                    /\ lastOp' = Call("set_temperature_setpoint", value, NoError, -1)
            /\ UNCHANGED <<_ramp_speed, _ramp_enabled, devT>>
    /\ UNCHANGED <<connection, cacheVars, now, threadVars, devAuto, lastFetch>>

\* temperature_ramp (setter), value in Kelvin / min: the test is on the
\* stored speed
temperature_ramp_set(value) ==
    /\ IF _ramp_speed <= 0
       THEN /\ lastOp' = Call("set_temperature_ramp", value, InvalidArgument, -1)
            /\ UNCHANGED _ramp_speed
       ELSE /\ _ramp_speed' = value
            /\ lastOp' = Call("set_temperature_ramp", value, NoError, -1)
    /\ wire' = <<>>
    /\ UNCHANGED <<connection, cacheVars, _ramp_enabled, _cancel_ramp,
                   _ramp_thread, now, threadVars, devVars>>

\* temperature_ramp_enabled (setter)
temperature_ramp_enabled_set(value) ==
    /\ _ramp_enabled' = value
    /\ lastOp' = Call("set_temperature_ramp_enabled", Bool(value), NoError, -1)
    /\ wire' = <<>>
    /\ UNCHANGED <<connection, cacheVars, _ramp_speed, _cancel_ramp,
                   _ramp_thread, now, threadVars, devVars>>

\* temperature_setpoint (setter) on thread t with ramping enabled and the
\* ramp thread alive: the cancel flag is set and the thread waits in join()
temperature_setpoint_join(t, value) ==
    /\ pending[t] = Idle
    /\ temperature_in_domain(value)
    /\ _ramp_enabled
    /\ is_alive(_ramp_thread)
    /\ _cancel_ramp' = TRUE
    /\ pending' = [pending EXCEPT ![t] = [op |-> "set_temperature_setpoint",
                                          value |-> value, code |-> 0]]
    /\ wire' = <<>>
    /\ UNCHANGED <<connection, cacheVars, _ramp_speed, _ramp_enabled,
                   _ramp_thread, now, task, _lock, devVars, lastOp>>

\* the rest of the setter on thread t, once the ramp thread has ended:
\* join() returns and the thread for the new target is created
temperature_setpoint_joined(t) ==
    /\ pending[t].op = "set_temperature_setpoint"
    /\ ~is_alive(_ramp_thread)
    /\ _ramp_thread' = Thread(round(pending[t].value))
    /\ pending' = [pending EXCEPT ![t] = Idle]
    /\ lastOp' = Call("set_temperature_setpoint", pending[t].value, NoError, -1)
    /\ wire' = <<>>
    /\ UNCHANGED <<connection, cacheVars, _ramp_speed, _ramp_enabled,
                   _cancel_ramp, now, task, _lock, devVars>>

----------------------------------------------------------------------------
(* The ramp thread.  Its local `current` is counted in sixtieths of a      *)
(* centi-Kelvin, the unit in which a step of <speed> / 60 Kelvin is the    *)
(* whole number 100 * <speed>.                                             *)

SecPerMin == 60

\* the ramp thread, as a holder of the lock
RampThread == "ramp"

\* sign(x): (1, -1)[x < 0]
sign(x) == IF x < 0 THEN -1 ELSE 1

\* round(current, 2), in centi-Kelvin (no step of a whole speed ends half
\* way between two of them)
round_current(u) == (2 * u + SecPerMin) \div (2 * SecPerMin)

\* str(round(current, 2)): a `current` below zero keeps its sign, also
\* where it rounds to zero ('-0.03', '-0.0')
str_current(u) ==
    IF u < 0 THEN <<"-">> \o str2(0 - round_current(u))
    ELSE str2(round_current(u))

\* Thread.start(): the thread runs _ramp_to_temperature(target)
Thread_start ==
    /\ _ramp_thread.state = "initial"
    /\ _ramp_thread' = [_ramp_thread EXCEPT !.state = "started"]
    /\ task' = [pc |-> "clear", current |-> 0, wrote |-> "none"]
    /\ wire' = <<>>
    /\ UNCHANGED <<connection, cacheVars, _ramp_speed, _ramp_enabled,
                   _cancel_ramp, now, devVars, lastOp, pending,
                   _lock>>

\* the thread ends: _ramp_to_temperature returned or raised
ramp_exit ==
    /\ task' = [task EXCEPT !.pc = "done"]
    /\ _ramp_thread' = [_ramp_thread EXCEPT !.state = "stopped"]

\* self._cancel_ramp.clear()
ramp_clear ==
    /\ task.pc = "clear"
    /\ _cancel_ramp' = FALSE
    /\ task' = [task EXCEPT !.pc = "read"]
    /\ wire' = <<>>
    /\ UNCHANGED <<connection, cacheVars, _ramp_speed, _ramp_enabled,
                   _ramp_thread, now, devVars, lastOp, pending,
                   _lock>>

\* current = self.temperature_setpoint
ramp_read ==
    /\ task.pc = "read"
    /\ _lock \in {"free", RampThread}
    /\ _lock' = "free"
    /\ \E q \in query(<<"R", "0">>, ChannelResponses) :
          /\ wire' = q.sent
          /\ IF channel_result(q).err # NoError
             THEN ramp_exit
             ELSE /\ task' = [task EXCEPT
                                 !.pc = "while",
                                 !.current = channel_result(q).value * SecPerMin]
                  /\ UNCHANGED _ramp_thread
    /\ UNCHANGED <<connection, cacheVars, _ramp_speed, _ramp_enabled,
                   _cancel_ramp, now, devVars, lastOp, pending>>

\* while self._ramp_enabled and not self._cancel_ramp.is_set()
\*       and round(current, 2) != target
ramp_while ==
    /\ task.pc = "while"
    /\ IF /\ _ramp_enabled
          /\ ~_cancel_ramp
          /\ round_current(task.current) # _ramp_thread.target
       THEN /\ task' = [task EXCEPT !.pc = "if"]
            /\ UNCHANGED _ramp_thread
       ELSE ramp_exit
    /\ wire' = <<>>
    /\ UNCHANGED <<connection, cacheVars, _ramp_speed, _ramp_enabled,
                   _cancel_ramp, now, devVars, lastOp, pending,
                   _lock>>

\* if self._ramp_enabled
ramp_if ==
    /\ task.pc = "if"
    /\ task' = [task EXCEPT !.pc = IF _ramp_enabled THEN "step" ELSE "settle"]
    /\ wire' = <<>>
    /\ UNCHANGED <<connection, cacheVars, rampVars, now, devVars, lastOp,
                   pending,
                   _lock>>

\* step = sign(target - current) * self._ramp_speed / 60; current += step;
\* self.query('T<round(current, 2)>')
ramp_step ==
    /\ task.pc = "step"
    /\ _lock \in {"free", RampThread}
    /\ _lock' = "free"
    /\ LET step == sign(_ramp_thread.target * SecPerMin - task.current)
                   * _ramp_speed * 100
           current == task.current + step
       IN  \E q \in query(<<"T">> \o str_current(current), {<<"T">>}) :
              /\ wire' = q.sent
              /\ IF q.err # NoError
                 THEN /\ ramp_exit
                      /\ UNCHANGED devT
                 ELSE /\ task' = [task EXCEPT !.pc = "sleep",
                                              !.current = current,
                                              !.wrote = "step"]
                      /\ devT' = str_current(current)
                      /\ UNCHANGED _ramp_thread
    /\ UNCHANGED <<connection, cacheVars, _ramp_speed, _ramp_enabled,
                   _cancel_ramp, now, devAuto, lastFetch, lastOp, pending>>

\* time.sleep(1)
ramp_sleep ==
    /\ task.pc = "sleep"
    /\ task' = [task EXCEPT !.pc = "while"]
    /\ wire' = <<>>
    /\ UNCHANGED <<connection, cacheVars, rampVars, now, devVars, lastOp,
                   pending,
                   _lock>>

\* else: self.query('T<round(current, 2)>'); self._cancel_ramp.set()
ramp_settle ==
    /\ task.pc = "settle"
    /\ _lock \in {"free", RampThread}
    /\ _lock' = "free"
    /\ \E q \in query(<<"T">> \o str_current(task.current), {<<"T">>}) :
          /\ wire' = q.sent
          /\ IF q.err # NoError
             THEN /\ ramp_exit
                  /\ UNCHANGED <<_cancel_ramp, devT>>
             ELSE /\ task' = [task EXCEPT !.pc = "while", !.wrote = "settle"]
                  /\ _cancel_ramp' = TRUE
                  /\ devT' = str_current(task.current)
                  /\ UNCHANGED _ramp_thread
    /\ UNCHANGED <<connection, cacheVars, _ramp_speed, _ramp_enabled, now,
                   devAuto, lastFetch, lastOp, pending>>

----------------------------------------------------------------------------
(* The lock, where a call is taken apart into the steps at which threads   *)
(* meet: `with self._lock` in query is a step of its own, and the round    *)
(* trip under the lock ends with its release.                              *)

\* with self._lock in query, on the ramp thread: it waits for a free lock
ramp_acquire ==
    /\ task.pc \in {"read", "step", "settle"}
    /\ _lock = "free"
    /\ _lock' = RampThread
    /\ wire' = <<>>
    /\ UNCHANGED <<connection, cacheVars, rampVars, now, devVars, lastOp,
                   pending, task>>

\* temperature_setpoint (getter) on thread t, up to with self._lock in query
temperature_setpoint_get_call(t) ==
    /\ pending[t] = Idle
    /\ pending' = [pending EXCEPT ![t] = [op |-> "get_temperature_setpoint",
                                          value |-> 0, code |-> 0]]
    /\ wire' = <<>>
    /\ UNCHANGED <<connection, cacheVars, rampVars, now, devVars, lastOp,
                   task, _lock>>

\* with self._lock in query, on thread t: it waits for a free lock
lock_acquire(t) ==
    /\ pending[t].op = "get_temperature_setpoint"
    /\ _lock = "free"
    /\ _lock' = t
    /\ wire' = <<>>
    /\ UNCHANGED <<connection, cacheVars, rampVars, now, devVars, lastOp,
                   pending, task>>

\* the rest of the getter on thread t: the round trip under the lock, the
\* release of the lock, and the result of _read_channel(0)
temperature_setpoint_get_locked(t) ==
    /\ pending[t].op = "get_temperature_setpoint"
    /\ _lock = t
    /\ \E q \in query(<<"R", "0">>, ChannelResponses) :
          /\ wire' = q.sent
          /\ lastOp' = Call("get_temperature_setpoint", -1,
                            channel_result(q).err, channel_result(q).value)
    /\ _lock' = "free"
    /\ pending' = [pending EXCEPT ![t] = Idle]
    /\ UNCHANGED <<connection, cacheVars, rampVars, now, devVars, task>>

----------------------------------------------------------------------------
(* Heater and gas flow output.                                             *)

\* a percentage up to 100 passes the check
percent_in_domain_wide(value) == 0 <= value /\ value <= (PercentMaxTenths + 1) * 10

\* 0 <= value <= 99.9, value in hundredths of a percent
percent_in_domain(value) == 0 <= value /\ value <= PercentMaxTenths * 10

\* heater_setpoint / gasflow_setpoint (setter), value in hundredths of a
\* percent: query('<letter><value>') after the check of the domain
percent_set(op, letter, value) ==
    /\ IF ~percent_in_domain(value)
       THEN /\ lastOp' = Call(op, value, InvalidArgument, -1)
            /\ wire' = <<>>
       ELSE \E q \in query(<<letter>> \o str1(round(value)), {<<letter>>}) :
               /\ wire' = q.sent
               /\ lastOp' = Call(op, value, q.err, -1)
    /\ UNCHANGED <<connection, cacheVars, rampVars, now, threadVars, devVars>>

heater_setpoint_set(value) == percent_set("set_heater_setpoint", "O", value)

gasflow_setpoint_set(value) == percent_set("set_gasflow_setpoint", "G", value)

----------------------------------------------------------------------------
(* Sensor, heater and gas flow modules.                                    *)

\* get_temp_modules, were it to list a fourth sensor
get_temp_modules_four == {<<"1">>, <<"2">>, <<"3">>, <<"4">>}

\* ITC503.get_temp_modules
get_temp_modules == {<<"1">>, <<"2">>, <<"3">>}

\* ITC503.select_temp_module; the name is recorded by its value as a number
select_temp_module(name) ==
    /\ IF name \notin get_temp_modules
       THEN /\ wire' = <<>>
            /\ lastOp' = Call("select_temp_module", DigitsValue(name),
                              InvalidArgument, -1)
       ELSE \E q \in query(<<"H">> \o name, {<<"H">>}) :
               /\ wire' = q.sent
               /\ lastOp' = Call("select_temp_module", DigitsValue(name),
                                 q.err, -1)
    /\ UNCHANGED <<connection, cacheVars, rampVars, now, threadVars, devVars>>

\* ITC503.select_heater_module
select_heater_module(name) ==
    /\ wire' = <<>>
    /\ lastOp' = Call("select_heater_module", DigitsValue(name),
                      UnsupportedOperation, -1)
    /\ UNCHANGED <<connection, cacheVars, rampVars, now, threadVars, devVars>>

\* ITC503.select_gasflow_module
select_gasflow_module(name) ==
    /\ wire' = <<>>
    /\ lastOp' = Call("select_gasflow_module", DigitsValue(name),
                      UnsupportedOperation, -1)
    /\ UNCHANGED <<connection, cacheVars, rampVars, now, threadVars, devVars>>

----------------------------------------------------------------------------
(* The driver after construction, and the calls made on it.                *)

\* temperatures passed to the setter, in milli-Kelvin: below, inside, on the
\* bounds of and above the domain, with and without a third decimal
SetpointInputs == {-1000, -1, 0, 10000, 10300, 10304, 300000, 300001, 301000}

\* ramp speeds passed to the setter, in Kelvin / min
RateInputs == {-1, 0, 5, 6}

\* percentages passed to the setters, in hundredths of a percent
PercentInputs == {-1, 0, 1234, 9990, 9991, 10000}

\* module names passed to the select methods: the three sensors, names next
\* to them and a name of two characters
ModuleNames == {<<"0">>, <<"1">>, <<"2">>, <<"3">>, <<"4">>, <<"1", "2">>}

\* setpoints written while a ramp thread may run, in milli-Kelvin: the
\* setpoint of the instrument and one three steps of 6 K / min above it
RampSetpoints == {10000, 10300}

\* ramp speeds set while a ramp thread may run, in Kelvin / min
RampRates == {5, 6}

\* a ramp that is left alone: the setpoint of the instrument when the
\* thread starts, in centi-Kelvin, and the target written, in milli-Kelvin.
\* Distances of a whole number of steps at 6 K / min (10.0 to 10.3, 10.0 to
\* 11.0), distances that are no whole number of steps at 5 or 6 K / min,
\* and targets on the two ends of the domain.
RunCases ==
    {<<1000, 10300>>, <<1000, 11000>>, <<1030, 10000>>, <<29995, 300000>>,
     <<5, 0>>}

\* setpoints of the instrument at construction, in centi-Kelvin
InitSetpoints == {0, 1000}

Init ==
    /\ connection \in BOOLEAN
    /\ _cached_status = NoStatus
    \* self._last_status = 0, the epoch: longer ago than the cache lives
    /\ _last_status = 0 - TicksPerSec - 1
    /\ _ramp_speed = 5
    /\ _ramp_enabled = FALSE
    /\ _cancel_ramp = FALSE
    /\ _ramp_thread = NoThread
    /\ now = 0
    /\ devAuto \in 0..3
    /\ devT \in {str2(c) : c \in InitSetpoints}
    /\ lastFetch = -1
    /\ wire = <<>>
    /\ lastOp = Call("init", -1, NoError, -1)
    /\ pending = [t \in Threads |-> Idle]
    /\ task = NoTask
    /\ _lock = "free"

\* the calls that read or write the auto-mode flags, as time passes
NextStatus ==
    \/ heater_auto_get
    \/ \E value \in BOOLEAN : heater_auto_set(value)
    \/ gasflow_auto_get
    \/ \E value \in BOOLEAN : gasflow_auto_set(value)
    \/ connect
    \/ disconnect
    \/ Tick

\* the calls that read or write the setpoints and the ramp
NextSetpoint ==
    \/ temperature_setpoint_get
    \/ \E value \in SetpointInputs : temperature_setpoint_set(value)
    \/ \E value \in RateInputs : temperature_ramp_set(value)
    \/ \E value \in BOOLEAN : temperature_ramp_enabled_set(value)
    \/ \E value \in PercentInputs : heater_setpoint_set(value)
    \/ \E value \in PercentInputs : gasflow_setpoint_set(value)
    \/ connect
    \/ disconnect

\* the calls that select a module
NextModules ==
    \/ \E name \in ModuleNames : select_temp_module(name)
    \/ \E name \in ModuleNames : select_heater_module(name)
    \/ \E name \in ModuleNames : select_gasflow_module(name)
    \/ connect
    \/ disconnect

\* the setters of the two flags called from two threads, each setter in
\* its two steps, as time passes
NextAutoThreads ==
    \/ \E t \in Threads, value \in BOOLEAN :
          \/ auto_set_status(t, "set_heater_auto", value)
          \/ auto_set_status(t, "set_gasflow_auto", value)
    \/ \E t \in Threads : auto_set_query(t)
    \/ heater_auto_get
    \/ gasflow_auto_get
    \/ Tick

\* the calls that write the setpoint and the ramp settings, made one after
\* the other from the foreground thread, which may wait in join(), and the
\* steps of a ramp thread that was started
NextRamp ==
    \/ /\ pending[Foreground] = Idle
       /\ \/ \E value \in RampSetpoints : temperature_setpoint_set(value)
          \/ \E value \in RampSetpoints :
                temperature_setpoint_join(Foreground, value)
          \/ \E value \in RampRates : temperature_ramp_set(value)
          \/ \E value \in BOOLEAN : temperature_ramp_enabled_set(value)
    \/ temperature_setpoint_joined(Foreground)
    \/ Thread_start
    \/ ramp_clear
    \/ ramp_read
    \/ ramp_while
    \/ ramp_if
    \/ ramp_step
    \/ ramp_sleep
    \/ ramp_settle

\* every call of the driver and every step of its threads; the properties
\* are stated under the specifications of its parts below: the auto-mode
\* flags (one call at a time, and as two threads), the setpoints, the
\* modules, and the ramp thread
Next ==
    NextStatus \/ NextSetpoint \/ NextModules \/ NextAutoThreads \/ NextRamp

Spec == Init /\ [][Next]_vars

SpecStatus == Init /\ [][NextStatus]_vars

SpecSetpoint == Init /\ [][NextSetpoint]_vars

SpecModules == Init /\ [][NextModules]_vars

SpecAutoThreads == Init /\ [][NextAutoThreads]_vars

\* a connected driver, the instrument at 10.0 K
InitRamp ==
    /\ Init
    /\ connection
    /\ devAuto = 0
    /\ devT = str2(1000)

SpecRamp == InitRamp /\ [][NextRamp]_vars

\* the driver right after a setpoint write with ramping enabled, connected
InitRun ==
    \E case \in RunCases, speed \in RampRates :
       /\ connection = TRUE
       /\ _cached_status = NoStatus
       /\ _last_status = 0 - TicksPerSec - 1
       /\ _ramp_speed = speed
       /\ _ramp_enabled = TRUE
       /\ _cancel_ramp = TRUE
       /\ _ramp_thread = Thread(round(case[2]))
       /\ now = 0
       /\ devAuto = 0
       /\ devT = str2(case[1])
       /\ lastFetch = -1
       /\ wire = <<>>
       /\ lastOp = Call("set_temperature_setpoint", case[2], NoError, -1)
       /\ pending = [t \in Threads |-> Idle]
       /\ task = NoTask
       /\ _lock = "free"

\* the steps of a ramp thread that is started and then left alone: no call
\* disables ramping or sets the cancel flag
NextRun ==
    \/ Thread_start
    \/ ramp_clear
    \/ ramp_read
    \/ ramp_while
    \/ ramp_if
    \/ ramp_step
    \/ ramp_sleep

\* the thread is scheduled again and again, and its sleep returns
SpecRun == InitRun /\ [][NextRun]_vars /\ WF_vars(NextRun)

\* the driver right after a setpoint write with ramping enabled, connected,
\* the instrument at 10.0 K or at 10.3 K
InitLock ==
    \E from \in {round(value) : value \in RampSetpoints},
       value \in RampSetpoints, speed \in RampRates :
       /\ connection = TRUE
       /\ _cached_status = NoStatus
       /\ _last_status = 0 - TicksPerSec - 1
       /\ _ramp_speed = speed
       /\ _ramp_enabled = TRUE
       /\ _cancel_ramp = TRUE
       /\ _ramp_thread = Thread(round(value))
       /\ now = 0
       /\ devAuto = 0
       /\ devT = str2(from)
       /\ lastFetch = -1
       /\ wire = <<>>
       /\ lastOp = Call("set_temperature_setpoint", value, NoError, -1)
       /\ pending = [t \in Threads |-> Idle]
       /\ task = NoTask
       /\ _lock = "free"

\* the steps of the ramp thread but for its wait for the lock
RampSteps ==
    \/ Thread_start
    \/ ramp_clear
    \/ _lock = RampThread /\ ramp_read
    \/ ramp_while
    \/ ramp_if
    \/ _lock = RampThread /\ ramp_step
    \/ ramp_sleep

\* the ramp thread, and a foreground thread that reads the setpoint and
\* writes it while the ramp thread is alive, both taking the lock
NextLock ==
    \/ RampSteps
    \/ ramp_acquire
    \/ temperature_setpoint_get_call(Foreground)
    \/ lock_acquire(Foreground)
    \/ temperature_setpoint_get_locked(Foreground)
    \/ \E value \in RampSetpoints :
          temperature_setpoint_join(Foreground, value)
    \/ temperature_setpoint_joined(Foreground)

\* both threads are scheduled again and again; a thread that waits for the
\* lock gets it once it is free again and again (the ramp thread leaves it
\* free for the second it sleeps, a call for the time until the next call)
SpecLock ==
    /\ InitLock
    /\ [][NextLock]_vars
    /\ WF_vars(RampSteps)
    /\ SF_vars(ramp_acquire)
    /\ SF_vars(lock_acquire(Foreground))
    /\ WF_vars(temperature_setpoint_get_locked(Foreground))
    /\ WF_vars(temperature_setpoint_joined(Foreground))

\* every valid setpoint of two decimals, in milli-Kelvin
EchoSetpoints == {10 * c : c \in 0..(TempMax * 100)}

InitEcho ==
    /\ Init
    /\ connection
    /\ devAuto = 0
    /\ devT = str2(0)

\* one write of the setpoint, then one read of it
NextEcho ==
    \/ /\ lastOp.op = "init"
       /\ \E value \in EchoSetpoints : temperature_setpoint_set(value)
    \/ /\ lastOp.op = "set_temperature_setpoint"
       /\ temperature_setpoint_get

SpecEcho == InitEcho /\ [][NextEcho]_vars

----------------------------------------------------------------------------
(* Properties.                                                             *)

\* the step is a call of the driver that ended as Call(op, arg, err, -1)
Ended(op, arg, err) == now' = now /\ lastOp' = Call(op, arg, err, -1)

StatusOps ==
    {"get_heater_auto", "set_heater_auto", "get_gasflow_auto", "set_gasflow_auto"}

\* the number of status queries among the calls w on the transport
XCount(w) == Cardinality({i \in DOMAIN w : w[i].cmd = <<"X">>})

\* C1: heaterAuto = true then gasflowAuto = false, one right after the other
\* and in either order, both ending normally: the last command of the
\* second call is A1 (heater auto, gas manual).
CE_C1_AutoSequenceEndsInA1 ==
    [][(\/ /\ lastOp = Call("set_heater_auto", 1, NoError, -1)
           /\ Ended("set_gasflow_auto", 0, NoError)
        \/ /\ lastOp = Call("set_gasflow_auto", 0, NoError, -1)
           /\ Ended("set_heater_auto", 1, NoError))
       => wire'[Len(wire')].cmd = A1]_vars

\* C2: a call that reads the status at most one second after the last status
\* query that was answered well sends no 'X'; a call that reads it later, or
\* before any such query, sends exactly one 'X', first of all, when there is
\* a connection, and ends normally only if that query was answered well.
C2_StatusCacheWindow ==
    [][(now' = now /\ lastOp'.op \in StatusOps) =>
        LET fresh == lastFetch >= 0 /\ now - lastFetch <= TicksPerSec IN
        /\ fresh => XCount(wire') = 0
        /\ (~fresh /\ connection) =>
              (XCount(wire') = 1 /\ wire'[1].cmd = <<"X">>)
        /\ (~fresh /\ lastOp'.err = NoError) =>
              (XCount(wire') = 1 /\ wire'[1].ok /\ lastFetch' = now)]_vars

\* C2 witness: a flag was read from the cache, within a second of the query
\* that filled it and later than it
W_C2_ReadFromCache ==
    /\ lastOp.op \in StatusOps
    /\ lastOp.err = NoError
    /\ XCount(wire) = 0
    /\ lastFetch >= 0
    /\ 0 < now - lastFetch
    /\ now - lastFetch <= TicksPerSec

\* C3: a temperature setpoint below 0 K or above 300 K ends in ValueError,
\* with no call on the transport and with the ramp thread, the cancel flag
\* and the setpoint of the instrument as they were.
C3_OutOfRangeSetpointRejected ==
    [][(/\ now' = now
        /\ lastOp'.op = "set_temperature_setpoint"
        /\ (lastOp'.arg < 0 \/ lastOp'.arg > 300000))
       => /\ lastOp'.err = InvalidArgument
          /\ wire' = <<>>
          /\ UNCHANGED <<_ramp_thread, _cancel_ramp, _ramp_enabled, devT>>]_vars

\* C3 witness: a setpoint out of range was rejected with ramping enabled
\* and a ramp thread in place
W_C3_RejectedWhileRamping ==
    /\ lastOp.op = "set_temperature_setpoint"
    /\ (lastOp.arg < 0 \/ lastOp.arg > 300000)
    /\ lastOp.err = InvalidArgument
    /\ _ramp_enabled
    /\ _ramp_thread # NoThread

\* the command w[1] is `letter` and a number within half a tenth of the
\* value v, given in hundredths
SendsPercent(w, letter, v) ==
    /\ Len(w) = 1
    /\ w[1].cmd[1] = letter
    /\ LET sent == float(SubSeq(w[1].cmd, 2, Len(w[1].cmd))) IN
       /\ sent % 10 = 0
       /\ sent - v <= 5
       /\ v - sent <= 5

\* C4: heater_setpoint and gasflow_setpoint end in ValueError and call the
\* transport not at all for a value outside [0, 99.9]; for a value inside
\* they make exactly one call, 'O<value>' or 'G<value>' with the value to
\* one decimal (none without a connection).
C4_PercentSettersValidate ==
    [][(/\ now' = now
        /\ lastOp'.op \in {"set_heater_setpoint", "set_gasflow_setpoint"})
       => IF lastOp'.arg < 0 \/ lastOp'.arg > 9990
          THEN lastOp'.err = InvalidArgument /\ wire' = <<>>
          ELSE /\ lastOp'.err # InvalidArgument
               /\ connection =>
                     SendsPercent(wire',
                                  IF lastOp'.op = "set_heater_setpoint"
                                  THEN "O" ELSE "G",
                                  lastOp'.arg)
               /\ ~connection => wire' = <<>>]_vars

\* C4 witness: a heater output just above 99.9 was rejected on a connected
\* driver
W_C4_RejectedAboveDomain ==
    /\ lastOp.op = "set_heater_setpoint"
    /\ lastOp.arg > 9990
    /\ lastOp.err = InvalidArgument
    /\ wire = <<>>
    /\ connection

\* C5: the stored ramp speed is larger than 0 in every state.
CE_C5_RampSpeedPositive == _ramp_speed > 0

\* C6: a status query answered with something that is no status ends the
\* call in the protocol error and leaves the cached status and its time as
\* they were.
CE_C6_MalformedStatusIsProtocolError ==
    [][(/\ now' = now
        /\ lastOp'.op \in StatusOps
        /\ Len(wire') > 0
        /\ wire'[1].cmd = <<"X">>
        /\ wire'[1].ok
        /\ ~fullmatch(wire'[1].resp))
       => /\ lastOp'.err = ProtocolError
          /\ UNCHANGED cacheVars]_vars

\* C7: with ramping enabled at 6 K/min and the instrument at 10.0 K, a
\* setpoint of 10.3 K is reached by three writes of a ramp task.  When the
\* setter returns, then, the task is running or the instrument is at 10.3 K.
CE_C7_RampRunsToTarget ==
    [][(/\ devT = str2(1000)
        /\ _ramp_enabled
        /\ _ramp_speed = 6
        /\ Ended("set_temperature_setpoint", 10300, NoError))
       => (is_alive(_ramp_thread') \/ devT' = str2(1030))]_vars

\* C8: with ramping disabled, a valid setpoint T of two decimals was written
\* and is read right after, the transport answering 'R0' with the value of
\* the 'T' command: the read ends normally and returns T.
C8_SetpointReadBack ==
    [][(/\ lastOp.op = "set_temperature_setpoint"
        /\ lastOp.err = NoError
        /\ ~_ramp_enabled
        /\ Len(wire) = 1
        /\ now' = now
        /\ lastOp'.op = "get_temperature_setpoint"
        /\ Len(wire') = 1
        /\ wire'[1].ok
        /\ wire'[1].resp = <<"R">> \o SubSeq(wire[1].cmd, 2, Len(wire[1].cmd)))
       => /\ lastOp'.err = NoError
          /\ lastOp'.ret * 10 = lastOp.arg]_vars

\* C8 witness: 299.99 K was written and read back
W_C8_ReadBack ==
    /\ lastOp = Call("get_temperature_setpoint", -1, NoError, 29999)
    /\ devT = <<"2", "9", "9", ".", "9", "9">>

CE_C10_DisconnectAlwaysReleases == lastOp.op = "disconnect" => ~connection

\* C11: connect() opens the transport first.  When the open fails, the
\* driver is not connected afterwards and nothing else was sent.  When the
\* open succeeds and a step of the handshake ('Q2', then 'C3') fails, the
\* call ends in ConnectionFailure and the driver is connected.
C11_ConnectHandshake ==
    [][(now' = now /\ lastOp'.op = "connect")
       => /\ Len(wire') >= 1
          /\ wire'[1].cmd = <<"open">>
          /\ ~wire'[1].ok => (~connection' /\ Len(wire') = 1)
          /\ (wire'[1].ok /\ \E i \in 2..Len(wire') : ~wire'[i].ok)
                => (lastOp'.err = ConnectionFailure /\ connection')]_vars

\* C11 witness: the transport opened, 'Q2' was written and the 'C3' query
\* failed
W_C11_HandshakeFailed ==
    /\ lastOp = Call("connect", -1, ConnectionFailure, -1)
    /\ connection
    /\ Len(wire) = 3
    /\ wire[2] = Sent(<<"Q", "2">>, TRUE, <<>>)
    /\ wire[3] = Failed(<<"C", "3">>)

\* C12: a call other than connect / disconnect in which a command sent over
\* the connection failed ends in ConnectionFailure, leaves the driver
\* disconnected and has sent nothing after the failed command.
CE_C12_FailedCallDisconnects ==
    [][(/\ now' = now
        /\ lastOp'.op \notin {"connect", "disconnect"}
        /\ \E i \in DOMAIN wire' : ~wire'[i].ok)
       => /\ lastOp'.err = ConnectionFailure
          /\ ~wire'[Len(wire')].ok
          /\ ~connection']_vars

\* C13: a call on a driver without connection ends in an error.  Stated for
\* the call the claim names: a write of a setpoint within 0 .. 300 K with
\* ramping enabled, the driver having no connection, ends in an error.
CE_C13_DisconnectedSetpointWriteFails ==
    [][(/\ ~connection
        /\ _ramp_enabled
        /\ now' = now
        /\ lastOp'.op = "set_temperature_setpoint"
        /\ 0 <= lastOp'.arg
        /\ lastOp'.arg <= TempMax * 1000)
       => lastOp'.err # NoError]_vars

\* C14: a call ends normally or in one of ConnectionFailure, ProtocolError,
\* InvalidArgument, UnsupportedOperation.  Stated for every call but
\* disconnect (whose failure is what the transport's close() raises).
CE_C14_OnlyContractErrors ==
    lastOp.op # "disconnect"
        => lastOp.err \in {NoError, ConnectionFailure, ProtocolError,
                           InvalidArgument, UnsupportedOperation}

\* C15: select_heater_module and select_gasflow_module end in
\* UnsupportedOperation and send nothing, whatever the name.
\* select_temp_module with a name other than '1', '2', '3' ends in
\* InvalidArgument and sends nothing; with one of the three it makes, on a
\* connected driver, the one round trip 'H<name>' and nothing else (without
\* connection it ends in ConnectionFailure).
C15_ModuleSelection ==
    [][/\ (now' = now /\ lastOp'.op \in {"select_heater_module",
                                        "select_gasflow_module"})
            => (lastOp'.err = UnsupportedOperation /\ wire' = <<>>)
       /\ (now' = now /\ lastOp'.op = "select_temp_module")
            => IF lastOp'.arg \notin {1, 2, 3}
               THEN lastOp'.err = InvalidArgument /\ wire' = <<>>
               ELSE IF connection
                    THEN /\ Len(wire') = 1
                         /\ wire'[1].cmd = <<"H", DigitChar(lastOp'.arg)>>
                         /\ lastOp'.err = (IF wire'[1].ok THEN NoError
                                           ELSE ConnectionFailure)
                    ELSE lastOp'.err = ConnectionFailure /\ wire' = <<>>]_vars

\* C15 witness: sensor '2' was selected on a connected driver by one 'H2'
W_C15_SensorSelected ==
    /\ lastOp = Call("select_temp_module", 2, NoError, -1)
    /\ wire = <<Sent(<<"H", "2">>, TRUE, <<"H">>)>>

\* C16: when a write of a valid setpoint with ramping enabled returns, the
\* ramp thread held by the driver is one for the rounded target and has
\* been started.
CE_C16_RampTaskStarted ==
    [][(/\ _ramp_enabled
        /\ now' = now
        /\ lastOp'.op = "set_temperature_setpoint"
        /\ lastOp'.err = NoError)
       => /\ _ramp_thread'.target = round(lastOp'.arg)
          /\ _ramp_thread'.state \notin {"none", "initial"}]_vars

\* C17: a write of a valid setpoint with ramping enabled, the driver holding
\* a ramp thread already, sets the cancel flag, returns normally and leaves
\* the driver with a thread for the new target.
CE_C17_RampTaskReplaced ==
    [][(/\ _ramp_enabled
        /\ _ramp_thread # NoThread
        /\ now' = now
        /\ lastOp'.op = "set_temperature_setpoint"
        /\ 0 <= lastOp'.arg
        /\ lastOp'.arg <= TempMax * 1000)
       => /\ _cancel_ramp'
          /\ lastOp'.err = NoError
          /\ _ramp_thread'.target = round(lastOp'.arg)]_vars

\* C18: a setter of one flag and a setter of the other flag run on two
\* threads at once, and both 'A' writes succeed, the one right after the
\* other.  The code sent last then carries both requested values: the
\* value of the setter that wrote first and the value of the setter that
\* wrote last.
CE_C18_NoLostUpdate ==
    [][\A t \in Threads :
          (/\ pending[t].op \in {"set_heater_auto", "set_gasflow_auto"}
           /\ pending'[t] = Idle
           /\ Len(wire') = 1
           /\ wire'[1].ok
           /\ lastOp.op \in {"set_heater_auto", "set_gasflow_auto"}
           /\ lastOp.op # pending[t].op
           /\ lastOp.err = NoError
           /\ Len(wire) = 1
           /\ wire[1].cmd \in {A0, A1, A2, A3}
           /\ wire[1].ok)
          => LET heater == IF lastOp.op = "set_heater_auto"
                           THEN lastOp.arg ELSE pending[t].value
                 gasflow == IF lastOp.op = "set_gasflow_auto"
                            THEN lastOp.arg ELSE pending[t].value
             IN  wire'[1].cmd = <<"A", DigitChar(heater + 2 * gasflow)>>]_vars

\* C19: while the ramp thread is between its first loop check and its end,
\* no step of another thread sends a 'T' command.
CE_C19_RampTaskSoleWriter ==
    [][(/\ task.pc \in {"if", "step", "sleep", "settle"}
        /\ task' = task)
       => \A i \in DOMAIN wire' : wire'[i].cmd[1] # "T"]_vars

\* C20: a ramp thread that has stepped and ends at a loop check short of
\* its target, because ramping was disabled or the cancel flag was set, has
\* made its last write in the settle branch.
CE_C20_SettleBeforeExit ==
    [][(/\ task.pc = "while"
        /\ task'.pc = "done"
        /\ task.wrote # "none"
        /\ ~_ramp_enabled \/ _cancel_ramp
        /\ round_current(task.current) # _ramp_thread.target)
       => task.wrote = "settle"]_vars

\* C21: a ramp thread that was started and is not cancelled ends: it
\* reaches its target at two decimals and leaves the loop.
CE_C21_RampTerminates == <>(task.pc = "done")

\* C26: every 'T' command carries a value within 0 .. 300.
CE_C26_SetpointCommandsInDomain ==
    \A i \in DOMAIN wire :
        wire[i].cmd[1] = "T"
            => LET v == Tail(wire[i].cmd)
               IN  IF v[1] = "-" THEN float(Tail(v)) = 0
                   ELSE float(v) <= TempMax * 100

\* C22: while the setter waits in join() for the ramp thread it has asked
\* to stop, and that thread has not ended, the cancel flag is set.
CE_C22_CancelFlagStaysSet ==
    (/\ pending[Foreground].op = "set_temperature_setpoint"
     /\ is_alive(_ramp_thread))
        => _cancel_ramp

\* C23: with ramping disabled, a write of a setpoint within 0 .. 300 K on a
\* connected driver makes the one round trip 'T<value>', the value being the
\* hundredth nearest to the setpoint, and nothing else (without connection
\* it sends nothing and ends in ConnectionFailure); it leaves the ramp
\* speed, the enabled flag, the cancel flag and the ramp thread as they were.
C23_DirectWriteFrame ==
    [][(/\ ~_ramp_enabled
        /\ now' = now
        /\ lastOp'.op = "set_temperature_setpoint"
        /\ 0 <= lastOp'.arg
        /\ lastOp'.arg <= TempMax * 1000)
       => /\ UNCHANGED rampVars
          /\ UNCHANGED task
          /\ IF connection
             THEN /\ Len(wire') = 1
                  /\ \E c \in {lastOp'.arg \div 10, lastOp'.arg \div 10 + 1} :
                        /\ 10 * c - lastOp'.arg \in -5..5
                        /\ wire'[1].cmd = <<"T">> \o str2(c)
                  /\ lastOp'.err = (IF wire'[1].ok THEN NoError
                                    ELSE ConnectionFailure)
             ELSE /\ wire' = <<>>
                  /\ lastOp'.err = ConnectionFailure]_vars

\* C23 witness: 10.304 K was written as 'T10.3' with ramping disabled,
\* the driver holding a ramp thread and a set cancel flag from before
W_C23_DirectWrite ==
    /\ lastOp = Call("set_temperature_setpoint", 10304, NoError, -1)
    /\ wire = <<Sent(<<"T", "1", "0", ".", "3">>, TRUE, <<"T">>)>>
    /\ ~_ramp_enabled
    /\ _cancel_ramp
    /\ _ramp_thread.state = "initial"

\* C25: a read of the heater (gas flow) flag that directly follows a
\* successful write of that flag returns the value written.
CE_C25_ReadYourWrites ==
    [][/\ (/\ lastOp.op = "set_heater_auto"
           /\ lastOp.err = NoError
           /\ lastOp'.op = "get_heater_auto"
           /\ lastOp'.err = NoError
           /\ now' = now)
          => lastOp'.ret = lastOp.arg
       /\ (/\ lastOp.op = "set_gasflow_auto"
           /\ lastOp.err = NoError
           /\ lastOp'.op = "get_gasflow_auto"
           /\ lastOp'.err = NoError
           /\ now' = now)
          => lastOp'.ret = lastOp.arg]_vars

\* C24: a call of the foreground thread that has not returned (a read of
\* the setpoint that waits for the lock or holds it, a write of the setpoint
\* that waits in join) returns in the end.
CE_C24_ForegroundCallCompletes ==
    (pending[Foreground] # Idle) ~> (pending[Foreground] = Idle)

====
